---- MODULE Spec2Model ----
(***************************************************************************)
(* remocom: the remote-build pipeline of src/main.rs as a state machine.   *)
(*                                                                         *)
(* A Rust String is a sequence of tokens (TLA+ strings); format! and join  *)
(* are concatenations of token sequences.  Option<T> is a sequence of      *)
(* length at most one: << >> is None and <<x>> is Some(x).                 *)
(***************************************************************************)
EXTENDS Integers, Sequences, FiniteSets, TLC

\* ------------------------------------------------------------------ bounds
\* Largest number of trailing cargo options on the command line.
MaxArgs == 2

\* Stand-in for the 2^64 range of DefaultHasher::finish().
HashModulus == 97

\* Largest number of workspace derivations followed in a row.
MaxDerivations == 2

\* ------------------------------------------------------- program constants
ExitNoRemote == -3
ExitTransferOut == -4
ExitRemoteLaunch == -5
ExitCopyBack == -6
ExitLockCopy == -7
\* Exit status of a Rust process that panics.
ExitPanic == 101
\* Fallback of output.status.code().unwrap_or(1).
ExitNoCode == 1
\* ssh(1) exits with 255 when the connection itself fails.
SshErrorStatus == 255
\* Width of a Unix process exit status.
ExitWidth == 256

\* ------------------------------------------------------------ Option<T>
None == << >>
Some(x) == <<x>>
IsSome(o) == Len(o) = 1
IsNone(o) == Len(o) = 0
Unwrap(o) == o[1]

\* ----------------------------------------------------------- input space
\* `remote` of Opts::Remote: absent, the empty string, or a host name.
CliRemotes == { None, Some(<< >>), Some(<<"cli.example">>) }

\* A line of a config file: key = value, or text that is not TOML.
Line(k, t, v) == [key |-> k, type |-> t, val |-> v]
OtherLine == Line("editor", "String", <<"vi">>)
BadLine == Line("", "Invalid", << >>)
IntRemoteLine == Line("remote", "Integer", <<"42">>)
RemoteLine(h) == Line("remote", "String", h)

\* Contents of a config file: None when it does not exist or cannot be
\* read, otherwise its lines.
FileContents(h) ==
    { None,
      Some(<<BadLine>>),
      Some(<<OtherLine>>),
      Some(<<IntRemoteLine>>),
      Some(<<OtherLine, RemoteLine(h)>>) }

ProjectFiles == FileContents(<<"proj.example">>)
GlobalFiles == FileContents(<<"glob.example">>)

CargoArgs == { <<"--release">>, <<"-v">> }

RECURSIVE SeqsUpTo(_, _)
SeqsUpTo(S, n) ==
    IF n = 0 THEN { << >> }
    ELSE LET shorter == SeqsUpTo(S, n - 1)
         IN  shorter \cup { Append(s, x) : s \in { t \in shorter : Len(t) = n - 1 }, x \in S }

OptionLists == SeqsUpTo(CargoArgs, MaxArgs)

\* copy_back: Option<Option<String>>.
CopyBacks == { None, Some(None), Some(Some(<<"release/app">>)) }

\* workspace_root as path components.
PathAlphabet == <<"home", "u", "proj", "other", "/">>
ProjectDirs == { <<"home", "u", "proj">>, <<"home", "u", "other">> }

\* Results of Command::output(): Err (the program could not be spawned) or
\* Ok(Output) with an exit status whose code() is Some(n), or None when the
\* child was killed by a signal.
SpawnError == [spawned |-> FALSE, connected |-> FALSE, code |-> None]
Exited(n) == [spawned |-> TRUE, connected |-> TRUE, code |-> Some(n)]
Signaled == [spawned |-> TRUE, connected |-> TRUE, code |-> None]
\* ssh started but could not reach the host: ssh itself exits with 255.
Unreachable == [spawned |-> TRUE, connected |-> FALSE, code |-> Some(SshErrorStatus)]

RsyncResults == { SpawnError, Exited(0), Exited(23) }
RemoteStatuses == { 0, 7, 249 }
SshResults == { SpawnError, Unreachable, Signaled } \cup { Exited(n) : n \in RemoteStatuses }

\* ExitStatus::success()
Success(out) == out.spawned /\ out.code = Some(0)

\* ----------------------------------------------------------------- state
VARIABLES
    remote, build_env, rustup_default, env, copy_back, no_copy_lock,
    hidden, command, options,          \* Opts::Remote
    project_dir,                       \* workspace_root
    project_file, global_file,         \* the two config files on disk
    config_options, build_server, build_path, build_command, output,
    pc,                                \* position in main
    calls,                             \* collaborator invocations so far
    exit_code,                         \* Option: exit status of the process
    outcome,                           \* which exit of main was taken
    root,                              \* a project root as written
    derived                            \* the workspace paths derived so far

inputs == <<remote, build_env, rustup_default, env, copy_back, no_copy_lock,
            hidden, command, options, project_dir, project_file, global_file>>
locals == <<config_options, build_server, build_path, build_command, output>>
identity == <<root, derived>>
vars == <<inputs, locals, pc, calls, exit_code, outcome, identity>>

\* -------------------------------------------------------------- helpers
\* Exit status of the process as the parent sees it: exit(c) keeps the low
\* eight bits of c.
ExitStatus(c) == c % ExitWidth

\* Keys of a parsed document, and the value stored under a key.
Keys(table) == { table[i].key : i \in 1..Len(table) }
Lookup(table, k) == LET i == CHOOSE j \in 1..Len(table) : table[j].key = k IN table[i]

\* str::parse::<toml::Value>: a document parses when every line is a
\* key/value pair and no key is repeated.
ParseToml(text) ==
    IF /\ \A i \in 1..Len(text) : text[i].type # "Invalid"
       /\ \A i, j \in 1..Len(text) : text[i].key = text[j].key => i = j
    THEN Some(text)
    ELSE None

\* config_from_file with a parse error read as an empty document.
config_from_file_EmptyOnError(file) ==
    IF IsNone(file) THEN None
    ELSE IF IsNone(ParseToml(Unwrap(file))) THEN Some(<< >>)
    ELSE ParseToml(Unwrap(file))

\* config_from_file: None when the file cannot be read or does not parse.
config_from_file(file) ==
    IF IsNone(file) THEN None ELSE ParseToml(Unwrap(file))

\* c["remote"].as_str().map(String::from) of one parsed config.  Indexing a
\* toml::Value with a key it does not hold panics; as_str() is None for a
\* value that is not a string.
RemoteOf(c) ==
    IF "remote" \notin Keys(c) THEN [panic |-> TRUE, host |-> None]
    ELSE LET v == Lookup(c, "remote")
         IN  [panic |-> FALSE,
              host |-> IF v.type = "String" THEN Some(v.val) ELSE None]

\* config_options.into_iter().flat_map(..).next(): the configs are visited
\* in order and only until one yields a host.
RECURSIVE FirstRemote(_)
FirstRemote(configs) ==
    IF configs = << >> THEN [panic |-> FALSE, host |-> None]
    ELSE IF IsNone(Head(configs)) THEN FirstRemote(Tail(configs))
    ELSE LET r == RemoteOf(Unwrap(Head(configs)))
         IN  IF r.panic \/ IsSome(r.host) THEN r
             ELSE FirstRemote(Tail(configs))

\* remote.or_else(|| ...): the closure runs only when the flag is absent.
ResolveRemote(cli, configs) ==
    IF IsSome(cli) THEN [panic |-> FALSE, host |-> cli]
    ELSE FirstRemote(configs)

\* Path::to_string_lossy of an absolute path.
RECURSIVE PathString(_)
PathString(dir) ==
    IF dir = << >> THEN << >>
    ELSE <<"/", Head(dir)>> \o PathString(Tail(dir))

\* Hash for Path feeds the hasher one component after the other.
ComponentCode(c) == CHOOSE i \in 1..Len(PathAlphabet) : PathAlphabet[i] = c

RECURSIVE HashFrom(_, _)
HashFrom(h, dir) ==
    IF dir = << >> THEN h
    ELSE HashFrom((h * 31 + ComponentCode(Head(dir))) % HashModulus, Tail(dir))

PathHash(dir) == HashFrom(7, dir)

\* The components of a path as written: Path::components drops the
\* separators, a trailing one included.
RECURSIVE PathComponents(_)
PathComponentsVerbatim(raw) == raw

PathComponents(raw) ==
    IF raw = << >> THEN << >>
    ELSE IF Head(raw) = "/" THEN PathComponents(Tail(raw))
    ELSE <<Head(raw)>> \o PathComponents(Tail(raw))

\* format!("~/remote-builds/{}/", hasher.finish())
BuildPath(dir) == <<"~/remote-builds/", ToString(PathHash(dir)), "/">>

\* [String]::join(sep)
RECURSIVE Join(_, _)
Join(strs, sep) ==
    IF strs = << >> THEN << >>
    ELSE IF Len(strs) = 1 THEN Head(strs)
    ELSE Head(strs) \o sep \o Join(Tail(strs), sep)

\* BuildCommand with the toolchain selected only after the directory change.
BuildCommandCdFirst(e, toolchain, path, benv, cmd, opts) ==
    <<"source", " ">> \o e \o <<";", " ", "cd", " ">> \o path
        \o <<";", " ", "rustup", " ", "default", " ">> \o toolchain \o <<";", " ">>
        \o benv \o <<" ", "cargo", " ">> \o cmd \o <<" ">> \o Join(opts, <<" ">>)

\* format!("source {}; rustup default {}; cd {}; {} cargo {} {}", ...)
BuildCommand(e, toolchain, path, benv, cmd, opts) ==
    <<"source", " ">> \o e \o <<";", " ", "rustup", " ", "default", " ">>
        \o toolchain \o <<";", " ", "cd", " ">> \o path \o <<";", " ">>
        \o benv \o <<" ", "cargo", " ">> \o cmd \o <<" ">> \o Join(opts, <<" ">>)

\* FinalCode with every failed build reported by the same generic code.
FinalCodeGeneric(out) == IF Success(out) THEN 0 ELSE ExitNoCode

\* exit status of main's last statement.
FinalCode(out) ==
    IF Success(out) THEN 0
    ELSE IF IsSome(out.code) THEN Unwrap(out.code) ELSE ExitNoCode

\* ----------------------------------------------------- collaborator calls
\* One Command::new(program).args(..).output() with what it returned.
Call(stage, program, args, result) ==
    [stage |-> stage, program |-> program, args |-> args, result |-> result]

Stages(cs) == { cs[i].stage : i \in 1..Len(cs) }
CallOf(cs, stage) == cs[CHOOSE i \in 1..Len(cs) : cs[i].stage = stage]

\* PushArgs with the test of the hidden flag inverted.
PushArgsHiddenInverted(hid, dir, server, path) ==
    << <<"-a">>, <<"--delete">>, <<"--compress">>, <<"--info=progress2">>,
       <<"--exclude">>, <<"--target">> >>
        \o (IF hid THEN << <<"--exclude">>, <<".*">> >> ELSE << >>)
        \o << <<"--rsync-path">>, <<"mkdir -p remote-builds && rsync">>,
              PathString(dir) \o <<"/">>,
              server \o <<":">> \o path >>

\* Arguments of the rsync that pushes the project (rsync_to).
PushArgs(hid, dir, server, path) ==
    << <<"-a">>, <<"--delete">>, <<"--compress">>, <<"--info=progress2">>,
       <<"--exclude">>, <<"--target">> >>
        \o (IF ~hid THEN << <<"--exclude">>, <<".*">> >> ELSE << >>)
        \o << <<"--rsync-path">>, <<"mkdir -p remote-builds && rsync">>,
              PathString(dir) \o <<"/">>,
              server \o <<":">> \o path >>

\* Arguments of the ssh that runs the build.
SshArgs(server, cmd) == << <<"-t">>, server, cmd >>

\* Arguments of the rsync that pulls target/<file_name> back.
PullArgs(server, path, dir, file_name) ==
    << <<"-a">>, <<"--delete">>, <<"--compress">>, <<"--info-progress2">>,
       server \o <<":">> \o path \o <<"/target/">> \o file_name,
       PathString(dir) \o <<"/target/">> \o file_name >>

\* LockArgs that looks for Cargo.lock in the remote base directory.
LockArgsBaseDir(server, path, dir) ==
    << <<"-a">>, <<"--delete">>, <<"--compress">>, <<"--info=progress2">>,
       server \o <<":">> \o <<"~/remote-builds/">> \o <<"/Cargo.lock">>,
       PathString(dir) \o <<"/Cargo.lock">> >>

\* Arguments of the rsync that pulls Cargo.lock back.
LockArgs(server, path, dir) ==
    << <<"-a">>, <<"--delete">>, <<"--compress">>, <<"--info=progress2">>,
       server \o <<":">> \o path \o <<"/Cargo.lock">>,
       PathString(dir) \o <<"/Cargo.lock">> >>

\* FatalCode with the lock-copy exit reusing the copy-back code.
FatalCodeShared(kind) ==
    CASE kind = "NoRemoteHost" -> ExitNoRemote
      [] kind = "TransferOutFailed" -> ExitTransferOut
      [] kind = "RemoteLaunchFailed" -> ExitRemoteLaunch
      [] kind = "CopyBackFailed" -> ExitCopyBack
      [] kind = "LockCopyFailed" -> ExitCopyBack

\* Exit code of each fatal exit of main.
FatalCode(kind) ==
    CASE kind = "NoRemoteHost" -> ExitNoRemote
      [] kind = "TransferOutFailed" -> ExitTransferOut
      [] kind = "RemoteLaunchFailed" -> ExitRemoteLaunch
      [] kind = "CopyBackFailed" -> ExitCopyBack
      [] kind = "LockCopyFailed" -> ExitLockCopy

FatalKinds ==
    { "NoRemoteHost", "TransferOutFailed", "RemoteLaunchFailed",
      "CopyBackFailed", "LockCopyFailed" }

\* Terminate that records the exit but lets main run on to its last statement.
TerminateAndRunOn(kind, code) ==
    /\ pc' = IF kind \in FatalKinds THEN "Finalize" ELSE "Done"
    /\ exit_code' = Some(ExitStatus(code))
    /\ outcome' = kind

\* std::process::exit(code), a panic, or the return from main.
Terminate(kind, code) ==
    /\ pc' = "Done"
    /\ exit_code' = Some(ExitStatus(code))
    /\ outcome' = kind

\* AfterRemote that runs a failed build a second time.
AfterRemoteRetryOnce(out) ==
    IF ~Success(out) /\ Len(calls) < 2 THEN "RemoteExecute" ELSE "CopyBackArtifacts"

\* AfterRemote that treats a failed build as the end of the pipeline.
AfterRemoteStopOnFailure(out) ==
    IF Success(out) THEN "CopyBackArtifacts" ELSE "Finalize"

\* Where main continues after the ssh call has returned Ok(output).
AfterRemote(out) == "CopyBackArtifacts"

\* if let Some(file_name) = copy_back
CopyBackEnabled == IsSome(copy_back)

\* The lock copy made to depend on the artifact copy-back being asked for.
LockCopyOnlyWithCopyBack == ~no_copy_lock /\ IsSome(copy_back)

\* if !no_copy_lock
LockCopyEnabled == ~no_copy_lock

\* ------------------------------------------------------------------ Init
Init ==
    /\ remote \in CliRemotes
    /\ build_env = <<"RUST_BACKTRACE=1">>
    /\ rustup_default = <<"stable">>
    /\ env = <<"/etc/profile">>
    /\ copy_back \in CopyBacks
    /\ no_copy_lock \in BOOLEAN
    /\ hidden \in BOOLEAN
    /\ command = <<"build">>
    /\ options \in OptionLists
    /\ project_dir \in ProjectDirs
    /\ project_file \in ProjectFiles
    /\ global_file \in GlobalFiles
    /\ config_options = << >>
    /\ build_server = << >>
    /\ build_path = << >>
    /\ build_command = << >>
    /\ output = SpawnError
    /\ pc = "LoadConfigs"
    /\ calls = << >>
    /\ exit_code = None
    /\ outcome = "Running"
    /\ root = << >>
    /\ derived = << >>

\* --------------------------------------------------------------- actions
\* let config_options = vec![...]: both files are read before the flag is
\* looked at.
LoadConfigs ==
    /\ pc = "LoadConfigs"
    /\ config_options' = <<config_from_file(project_file), config_from_file(global_file)>>
    /\ pc' = "ResolveHost"
    /\ UNCHANGED <<identity, inputs, build_server, build_path, build_command, output,
                   calls, exit_code, outcome>>

\* let build_server = remote.or_else(..).unwrap_or_else(|| exit(-3))
ResolveHost ==
    /\ pc = "ResolveHost"
    /\ LET r == ResolveRemote(remote, config_options)
       IN  IF r.panic
           THEN /\ Terminate("Panic", ExitPanic)
                /\ UNCHANGED build_server
           ELSE IF IsNone(r.host)
           THEN /\ Terminate("NoRemoteHost", FatalCode("NoRemoteHost"))
                /\ UNCHANGED build_server
           ELSE /\ build_server' = Unwrap(r.host)
                /\ pc' = "DeriveWorkspace"
                /\ UNCHANGED <<exit_code, outcome>>
    /\ UNCHANGED <<identity, inputs, config_options, build_path, build_command, output, calls>>

\* let build_path = format!("~/remote-builds/{}/", hasher.finish())
DeriveWorkspace ==
    /\ pc = "DeriveWorkspace"
    /\ build_path' = BuildPath(project_dir)
    /\ pc' = "SyncOut"
    /\ UNCHANGED <<identity, inputs, config_options, build_server, build_command, output,
                   calls, exit_code, outcome>>

\* rsync_to...output().unwrap_or_else(|e| exit(-4)): only a failure to
\* spawn rsync reaches the closure; the Output is dropped.
SyncOut ==
    /\ pc = "SyncOut"
    /\ \E res \in RsyncResults :
        /\ calls' = Append(calls, Call("SyncOut", "rsync",
                              PushArgs(hidden, project_dir, build_server, build_path), res))
        /\ IF ~res.spawned
           THEN Terminate("TransferOutFailed", FatalCode("TransferOutFailed"))
           ELSE /\ pc' = "FormatCommand"
                /\ UNCHANGED <<exit_code, outcome>>
    /\ UNCHANGED <<identity, inputs, locals>>

\* let build_command = format!(...)
FormatCommand ==
    /\ pc = "FormatCommand"
    /\ build_command' = BuildCommand(env, rustup_default, build_path, build_env,
                                     command, options)
    /\ pc' = "RemoteExecute"
    /\ UNCHANGED <<identity, inputs, config_options, build_server, build_path, output,
                   calls, exit_code, outcome>>

\* let output = Command::new("ssh")...output().unwrap_or_else(|e| exit(-5))
RemoteExecute ==
    /\ pc = "RemoteExecute"
    /\ \E res \in SshResults :
        /\ calls' = Append(calls, Call("RemoteExecute", "ssh",
                              SshArgs(build_server, build_command), res))
        /\ IF ~res.spawned
           THEN /\ Terminate("RemoteLaunchFailed", FatalCode("RemoteLaunchFailed"))
                /\ UNCHANGED output
           ELSE /\ output' = res
                /\ pc' = AfterRemote(res)
                /\ UNCHANGED <<exit_code, outcome>>
    /\ UNCHANGED <<identity, inputs, config_options, build_server, build_path, build_command>>

\* if let Some(file_name) = copy_back { ... exit(-6) }
CopyBackArtifacts ==
    /\ pc = "CopyBackArtifacts"
    /\ IF ~CopyBackEnabled
       THEN /\ pc' = "CopyBackLock"
            /\ UNCHANGED <<calls, exit_code, outcome>>
       ELSE \E res \in RsyncResults :
            LET file_name == IF IsSome(Unwrap(copy_back))
                             THEN Unwrap(Unwrap(copy_back)) ELSE << >>
            IN  /\ calls' = Append(calls, Call("CopyBackArtifacts", "rsync",
                                  PullArgs(build_server, build_path, project_dir, file_name), res))
                /\ IF ~res.spawned
                   THEN Terminate("CopyBackFailed", FatalCode("CopyBackFailed"))
                   ELSE /\ pc' = "CopyBackLock"
                        /\ UNCHANGED <<exit_code, outcome>>
    /\ UNCHANGED <<identity, inputs, locals>>

\* if !no_copy_lock { ... exit(-7) }
CopyBackLock ==
    /\ pc = "CopyBackLock"
    /\ IF ~LockCopyEnabled
       THEN /\ pc' = "Finalize"
            /\ UNCHANGED <<calls, exit_code, outcome>>
       ELSE \E res \in RsyncResults :
            /\ calls' = Append(calls, Call("CopyBackLock", "rsync",
                                  LockArgs(build_server, build_path, project_dir), res))
            /\ IF ~res.spawned
               THEN Terminate("LockCopyFailed", FatalCode("LockCopyFailed"))
               ELSE /\ pc' = "Finalize"
                    /\ UNCHANGED <<exit_code, outcome>>
    /\ UNCHANGED <<identity, inputs, locals>>

\* if !output.status.success() { exit(output.status.code().unwrap_or(1)) }
Finalize ==
    /\ pc = "Finalize"
    /\ Terminate(IF Success(output) THEN "Success" ELSE "RemoteBuildFailed",
                 FinalCode(output))
    /\ UNCHANGED <<identity, inputs, locals, calls>>

Next ==
    \/ LoadConfigs
    \/ ResolveHost
    \/ DeriveWorkspace
    \/ SyncOut
    \/ FormatCommand
    \/ RemoteExecute
    \/ CopyBackArtifacts
    \/ CopyBackLock
    \/ Finalize

Spec == Init /\ [][Next]_vars

\* Every blocking call returns and main goes on to its next statement.
FairSpec == Spec /\ WF_vars(Next)

\* ------------------------------------------- workspace identity on its own
\* Project roots as they may be written: with and without a trailing slash.
RawRoots ==
    UNION { { PathString(d), PathString(d) \o <<"/">> } :
                d \in ProjectDirs \cup { <<"home", "u">> } }

\* project_dir.hash(&mut hasher); format!("~/remote-builds/{}/", ..) of a
\* root as written.
WorkspacePath(raw) == BuildPath(PathComponents(raw))

InitIdentity ==
    /\ root \in RawRoots
    /\ derived = << >>
    /\ remote = None
    /\ build_env = <<"RUST_BACKTRACE=1">>
    /\ rustup_default = <<"stable">>
    /\ env = <<"/etc/profile">>
    /\ copy_back = None
    /\ no_copy_lock = FALSE
    /\ hidden = FALSE
    /\ command = <<"build">>
    /\ options = << >>
    /\ project_dir = << >>
    /\ project_file = None
    /\ global_file = None
    /\ config_options = << >>
    /\ build_server = << >>
    /\ build_path = << >>
    /\ build_command = << >>
    /\ output = SpawnError
    /\ pc = "Identity"
    /\ calls = << >>
    /\ exit_code = None
    /\ outcome = "Running"

\* One run's derivation of the workspace path of the root at hand.
DeriveIdentity ==
    /\ pc = "Identity"
    /\ Len(derived) < MaxDerivations
    /\ derived' = Append(derived, [root |-> root, path |-> WorkspacePath(root)])
    /\ UNCHANGED <<root, inputs, locals, pc, calls, exit_code, outcome>>

\* The next run is given another project, or the same one written otherwise.
Respell ==
    /\ pc = "Identity"
    /\ \E r \in RawRoots : r # root /\ root' = r
    /\ UNCHANGED <<derived, inputs, locals, pc, calls, exit_code, outcome>>

NextIdentity ==
    \/ DeriveIdentity
    \/ Respell

SpecIdentity == InitIdentity /\ [][NextIdentity]_vars

\* ================================================================ claims
Invoked(stage) == stage \in Stages(calls)
ResultOf(stage) == CallOf(calls, stage).result
\* The stage was invoked and did not succeed: it could not be launched, or
\* it ran and reported a failure status.
Failed(stage) == Invoked(stage) /\ ~Success(ResultOf(stage))
\* The stage is disabled or was skipped, or it succeeded.
QuietOrOk(stage) == ~Invoked(stage) \/ Success(ResultOf(stage))
Exit(c) == Some(ExitStatus(c))

\* C1: if the transfer-out stage fails in any way (rsync cannot be launched,
\* or runs and reports a failure status), RemoteExecute, CopyBackArtifacts
\* and CopyBackLock are never invoked and the process ends with the
\* transfer-out fatal exit code.
C1_TransferOutFailureStopsPipeline ==
    Failed("SyncOut") =>
        /\ ~Invoked("RemoteExecute")
        /\ ~Invoked("CopyBackArtifacts")
        /\ ~Invoked("CopyBackLock")
        /\ (pc = "Done" => exit_code = Exit(ExitTransferOut))

\* C2: if the remote build exits 0 but the CopyBackArtifacts pull fails in
\* any way, the final exit code is the copy-back fatal code and never 0
\* (stated for runs whose push succeeded and whose lock-file pull did not
\* fail as well).
C2_CopyBackFailureIsFatal ==
    ( /\ pc = "Done"
      /\ Invoked("SyncOut") /\ Success(ResultOf("SyncOut"))
      /\ Invoked("RemoteExecute") /\ Success(ResultOf("RemoteExecute"))
      /\ Failed("CopyBackArtifacts")
      /\ QuietOrOk("CopyBackLock") ) =>
        /\ exit_code = Exit(ExitCopyBack)
        /\ exit_code # Some(0)

\* C3: when the remote session was launched and returned exit status n, and
\* each copy-back stage was disabled or successful, the process exits with
\* n: n itself when n is non-zero, 0 when n is 0.
C3_ExitCodeIsRemoteStatus ==
    ( /\ pc = "Done"
      /\ Invoked("RemoteExecute")
      /\ ResultOf("RemoteExecute").spawned
      /\ IsSome(ResultOf("RemoteExecute").code)
      /\ QuietOrOk("CopyBackArtifacts")
      /\ QuietOrOk("CopyBackLock") ) =>
        exit_code = ResultOf("RemoteExecute").code

\* A run whose remote build exited with 7, copy-back and lock copy disabled.
C3_Witness ==
    /\ pc = "Done"
    /\ Invoked("RemoteExecute") /\ ResultOf("RemoteExecute") = Exited(7)
    /\ IsNone(copy_back) /\ no_copy_lock
    /\ exit_code = Some(7)

\* What a config file yields as a source of the host: the string under its
\* `remote` key, when the file is readable, parses and holds one.
SourceValue(file) ==
    IF IsNone(file) \/ IsNone(ParseToml(Unwrap(file))) THEN None
    ELSE IF "remote" \notin Keys(Unwrap(file)) THEN None
    ELSE IF Lookup(Unwrap(file), "remote").type # "String" THEN None
    ELSE Some(Lookup(Unwrap(file), "remote").val)

\* The value of the first source, in the order CLI flag, project-local
\* file, user-global file, that yields one.
FirstSource ==
    IF IsSome(remote) THEN remote
    ELSE IF IsSome(SourceValue(project_file)) THEN SourceValue(project_file)
    ELSE SourceValue(global_file)

Resolved == pc \notin {"LoadConfigs", "ResolveHost"}

\* C4: the resolved host is the value of the first source, in the order CLI
\* override, project-local file, user-global file, that yields a value; with
\* the CLI override set it is the override whatever the files hold.
C4_HostPrecedence ==
    (Resolved /\ IsSome(FirstSource)) =>
        /\ outcome \notin {"Panic", "NoRemoteHost"}
        /\ build_server = Unwrap(FirstSource)

\* C5: if none of the three sources yields a remote host, the run ends with
\* the no-remote-host exit code and no push, remote-execute or pull stage
\* is invoked.
C5_NoHostIsFatal ==
    (Resolved /\ IsNone(FirstSource)) =>
        /\ pc = "Done"
        /\ exit_code = Exit(ExitNoRemote)
        /\ calls = << >>

\* The remote build ran and exited with a non-zero status.
RemoteNonZero ==
    /\ Invoked("RemoteExecute")
    /\ ResultOf("RemoteExecute").spawned
    /\ IsSome(ResultOf("RemoteExecute").code)
    /\ ResultOf("RemoteExecute").code # Some(0)

StageOrder(cs) == [i \in 1..Len(cs) |-> cs[i].stage]

\* C6: after a remote build that exited non-zero the pipeline goes on:
\* CopyBackArtifacts is invoked when copy_back is present, CopyBackLock when
\* the lock copy is enabled (unless the artifact pull ended the run), in that
\* order after RemoteExecute, and only then does the run end with the remote
\* status as its exit code.
C6_CopyBackAfterFailedBuild ==
    RemoteNonZero =>
        /\ (pc \in {"CopyBackLock", "Finalize", "Done"} /\ IsSome(copy_back))
               => Invoked("CopyBackArtifacts")
        /\ (pc \in {"Finalize", "Done"} /\ ~no_copy_lock /\ outcome # "CopyBackFailed")
               => Invoked("CopyBackLock")
        /\ (pc = "Done" /\ outcome \notin {"CopyBackFailed", "LockCopyFailed"}) =>
               /\ outcome = "RemoteBuildFailed"
               /\ exit_code = ResultOf("RemoteExecute").code
               /\ StageOrder(calls) =
                      <<"SyncOut", "RemoteExecute">>
                          \o (IF IsSome(copy_back) THEN <<"CopyBackArtifacts">> ELSE << >>)
                          \o (IF no_copy_lock THEN << >> ELSE <<"CopyBackLock">>)

\* A finished run: build exited 7, then both pulls were made.
C6_Witness ==
    /\ pc = "Done"
    /\ RemoteNonZero
    /\ IsSome(copy_back) /\ ~no_copy_lock
    /\ StageOrder(calls) = <<"SyncOut", "RemoteExecute", "CopyBackArtifacts", "CopyBackLock">>
    /\ exit_code = Some(7)

\* The remote stage hit a transport or launch failure: ssh could not be
\* spawned, or it could not reach the host.
RemoteTransportFailure ==
    /\ Invoked("RemoteExecute")
    /\ (~ResultOf("RemoteExecute").spawned \/ ~ResultOf("RemoteExecute").connected)

\* C7: on a remote transport/launch failure the run ends with the
\* remote-launch fatal exit code and neither CopyBackArtifacts nor
\* CopyBackLock is invoked (stated for runs whose push succeeded).
C7_RemoteLaunchFailureIsFatal ==
    (RemoteTransportFailure /\ Success(ResultOf("SyncOut"))) =>
        /\ ~Invoked("CopyBackArtifacts")
        /\ ~Invoked("CopyBackLock")
        /\ (pc = "Done" => exit_code = Exit(ExitRemoteLaunch))

\* The stage whose collaborator could not be launched, for each fatal exit.
FatalStage(kind) ==
    CASE kind = "TransferOutFailed" -> "SyncOut"
      [] kind = "RemoteLaunchFailed" -> "RemoteExecute"
      [] kind = "CopyBackFailed" -> "CopyBackArtifacts"
      [] kind = "LockCopyFailed" -> "CopyBackLock"

\* C8: each of the five fatal exits ends the process with its own exit
\* status; the five are non-zero and pairwise distinct, so the exit status
\* of a fatally failed run tells which stage failed.
C8_FatalCodesDistinct ==
    (pc = "Done" /\ outcome \in FatalKinds) =>
        /\ exit_code # Some(0)
        /\ \A k \in FatalKinds : (exit_code = Exit(FatalCode(k))) <=> (k = outcome)
        /\ IF outcome = "NoRemoteHost" THEN calls = << >>
           ELSE /\ calls # << >>
                /\ calls[Len(calls)].stage = FatalStage(outcome)
                /\ ~calls[Len(calls)].result.spawned

\* A run ended by the lock-file pull that could not be launched.
C8_Witness ==
    /\ pc = "Done"
    /\ outcome = "LockCopyFailed"
    /\ Invoked("CopyBackArtifacts")
    /\ exit_code = Some(249)

\* C9: if the CopyBackLock pull fails in any way the run ends with the
\* lock-copy fatal exit code, whatever the earlier stages did (stated for
\* the runs the claim names: the push succeeded, the remote build exited
\* with a status, zero or not, and the artifact pull was skipped or
\* succeeded).
C9_LockCopyFailureIsFatal ==
    ( /\ pc = "Done"
      /\ Failed("CopyBackLock")
      /\ Success(ResultOf("SyncOut"))
      /\ ResultOf("RemoteExecute").connected
      /\ IsSome(ResultOf("RemoteExecute").code)
      /\ QuietOrOk("CopyBackArtifacts") ) =>
        /\ exit_code = Exit(ExitLockCopy)
        /\ exit_code # Some(0)

\* The pieces of a string between the occurrences of a separator token.
RECURSIVE SplitOn(_, _)
SplitOn(s, sep) ==
    IF \A i \in 1..Len(s) : s[i] # sep THEN <<s>>
    ELSE LET i == CHOOSE j \in 1..Len(s) :
                      s[j] = sep /\ \A k \in 1..(j - 1) : s[k] # sep
         IN  <<SubSeq(s, 1, i - 1)>> \o SplitOn(SubSeq(s, i + 1, Len(s)), sep)

\* The statements of a shell command line, and the words of a statement.
Statements(cmd) == SplitOn(cmd, ";")
NonEmpty(w) == w # << >>
Words(stmt) == SelectSeq(SplitOn(stmt, " "), NonEmpty)

\* The command string handed to ssh.
RemoteCommand == CallOf(calls, "RemoteExecute").args[3]

\* C10: the remote command is, in this order and separated by statement
\* separators: source <environment profile>; rustup default <toolchain>;
\* cd <workspace path>; and last build_env, cargo, the command and the extra
\* arguments in their original order, joined by single spaces.  Looked at
\* when the command has just been handed to ssh.
C10_RemoteCommandShape ==
    (calls # << >> /\ calls[Len(calls)].stage = "RemoteExecute") =>
        LET st == Statements(RemoteCommand)
        IN  /\ Len(st) = 4
            /\ Words(st[1]) = << <<"source">>, env >>
            /\ Words(st[2]) = << <<"rustup">>, <<"default">>, rustup_default >>
            /\ Words(st[3]) = << <<"cd">>, build_path >>
            /\ Words(st[4]) = << build_env, <<"cargo">>, command >> \o options
            /\ build_path = BuildPath(project_dir)
            /\ \A i \in 1..(Len(RemoteCommand) - 1) :
                   ~(RemoteCommand[i] = " " /\ RemoteCommand[i + 1] = " ")
            /\ \A i \in 2..4 : st[i] # << >> /\ st[i][1] = " "

\* A command built from two different extra arguments.
C10_Witness ==
    /\ Invoked("RemoteExecute")
    /\ options = << <<"--release">>, <<"-v">> >>
    /\ RemoteCommand[Len(RemoteCommand)] = "-v"

\* Position of a stage in the fixed order of the pipeline.
StageRank(stage) ==
    CASE stage = "SyncOut" -> 1
      [] stage = "RemoteExecute" -> 2
      [] stage = "CopyBackArtifacts" -> 3
      [] stage = "CopyBackLock" -> 4

\* C11: the stages of one run are invoked one after the other in the fixed
\* order SyncOut, RemoteExecute, CopyBackArtifacts, CopyBackLock, each at
\* most once: the first call is the push, the build is never run without
\* it, and every later call is of a later stage than the one before.
C11_StagesInOrderAtMostOnce ==
    /\ \A i, j \in 1..Len(calls) :
           i < j => StageRank(calls[i].stage) < StageRank(calls[j].stage)
    /\ Len(calls) >= 1 => calls[1].stage = "SyncOut"
    /\ Len(calls) >= 2 => calls[2].stage = "RemoteExecute"
    /\ \A i \in 1..(Len(calls) - 1) : calls[i].result.spawned
    /\ Len(calls) <= 4

\* A finished run that went through all four stages.
C11_Witness ==
    /\ pc = "Done"
    /\ StageOrder(calls) = <<"SyncOut", "RemoteExecute", "CopyBackArtifacts", "CopyBackLock">>

\* The run got past the point where main decides on the artifact pull, and
\* past the point where it decides on the lock-file pull.
PastCopyBack ==
    \/ pc \in {"CopyBackLock", "Finalize"}
    \/ pc = "Done" /\ outcome \in {"Success", "RemoteBuildFailed", "CopyBackFailed", "LockCopyFailed"}
PastLockCopy ==
    \/ pc = "Finalize"
    \/ pc = "Done" /\ outcome \in {"Success", "RemoteBuildFailed", "LockCopyFailed"}

\* C12: in a run that reaches them, CopyBackArtifacts is invoked if and only
\* if copy_back is present (with or without a sub-path) and CopyBackLock if
\* and only if the skip-lock flag is not set, each whatever the other is.
C12_ConditionalStagesWhenEnabled ==
    /\ PastCopyBack => (Invoked("CopyBackArtifacts") <=> IsSome(copy_back))
    /\ PastLockCopy => (Invoked("CopyBackLock") <=> ~no_copy_lock)
    /\ Invoked("CopyBackArtifacts") => IsSome(copy_back)
    /\ Invoked("CopyBackLock") => ~no_copy_lock

\* A finished run with the lock copy made and the artifact copy-back off.
C12_Witness ==
    /\ pc = "Done"
    /\ IsNone(copy_back) /\ ~no_copy_lock
    /\ Invoked("CopyBackLock") /\ ~Invoked("CopyBackArtifacts")

\* The file cannot be read, or its text is not a TOML document.
Unusable(file) ==
    \/ IsNone(file)
    \/ \E i \in 1..Len(Unwrap(file)) : Unwrap(file)[i].type = "Invalid"

\* C13: a config file that cannot be read or does not parse counts as an
\* absent source and does not abort resolution: with the project-local file
\* missing or malformed and a remote in the user-global file the resolved
\* host is the user-global value; two unusable files never abort the run
\* abnormally; the no-remote-host exit is taken only when no source yields
\* a value.
C13_UnusableFileIsAbsent ==
    /\ (pc = "ResolveHost" /\ Unusable(project_file)) => config_options[1] = None
    /\ (pc = "ResolveHost" /\ Unusable(global_file)) => config_options[2] = None
    /\ (Resolved /\ Unusable(project_file) /\ IsNone(remote)
            /\ IsSome(SourceValue(global_file))) =>
           /\ outcome \notin {"Panic", "NoRemoteHost"}
           /\ build_server = Unwrap(SourceValue(global_file))
    /\ (Resolved /\ Unusable(project_file) /\ Unusable(global_file)) =>
           /\ outcome # "Panic"
           /\ IsNone(remote) => (outcome = "NoRemoteHost" /\ exit_code = Exit(ExitNoRemote))
    /\ outcome = "NoRemoteHost" => IsNone(FirstSource)

\* The push went to the user-global host past a malformed project-local file.
C13_Witness ==
    /\ IsNone(remote)
    /\ project_file = Some(<<BadLine>>)
    /\ Invoked("SyncOut")
    /\ build_server = <<"glob.example">>

\* The file reads and parses, but holds no string under `remote`.
NoRemoteString(file) ==
    /\ ~Unusable(file)
    /\ IsNone(SourceValue(file))

\* C14: a config file that parses but has no `remote` key, or a `remote`
\* that is not a string, counts as an absent source: resolution goes on to
\* the next source or ends with the no-remote-host exit, and the program
\* never aborts abnormally because of it.
C14_KeylessFileIsAbsent ==
    (Resolved /\ (NoRemoteString(project_file) \/ NoRemoteString(global_file))) =>
        /\ outcome # "Panic"
        /\ IF IsSome(FirstSource)
           THEN outcome # "NoRemoteHost" /\ build_server = Unwrap(FirstSource)
           ELSE outcome = "NoRemoteHost"

\* C15: an empty --remote value is not used as the host: resolution falls
\* through to the project-local and then the user-global file, and the host
\* handed to the stages is never the empty string.
C15_EmptyCliRemoteFallsThrough ==
    /\ (Resolved /\ outcome \notin {"Panic", "NoRemoteHost"}) => build_server # << >>
    /\ (Resolved /\ remote = Some(<< >>) /\ IsSome(SourceValue(project_file))) =>
           build_server = Unwrap(SourceValue(project_file))
    /\ \A i \in 1..Len(calls) :
           calls[i].stage = "RemoteExecute" => calls[i].args[2] # << >>

\* The arguments the push was given.
PushCallArgs == CallOf(calls, "SyncOut").args

\* The argument list asks rsync to leave out dotfiles and dot-directories.
DotExcluded(a) ==
    \E i \in 1..(Len(a) - 1) : a[i] = <<"--exclude">> /\ a[i + 1] = <<".*">>

\* The argument list without its dotfile exclusion.
WithoutDotExclusion(a) ==
    IF DotExcluded(a)
    THEN LET i == CHOOSE j \in 1..(Len(a) - 1) :
                      a[j] = <<"--exclude">> /\ a[j + 1] = <<".*">>
         IN  SubSeq(a, 1, i - 1) \o SubSeq(a, i + 2, Len(a))
    ELSE a

\* C16: the push is given the dotfile exclusion if and only if
\* transfer_hidden is false; with transfer_hidden true no argument names the
\* dotfile pattern; the archive, delete, compression and progress options
\* and the rest of the argument list are the same in both cases.
C16_HiddenExclusionIffNotHidden ==
    Invoked("SyncOut") =>
        LET a == PushCallArgs
            rest == WithoutDotExclusion(a)
        IN  /\ DotExcluded(a) <=> ~hidden
            /\ hidden => \A i \in 1..Len(a) : a[i] # <<".*">>
            /\ Len(a) = Len(rest) + (IF hidden THEN 0 ELSE 2)
            /\ SubSeq(rest, 1, 4) =
                   << <<"-a">>, <<"--delete">>, <<"--compress">>, <<"--info=progress2">> >>
            /\ Len(rest) = 10
            /\ ~DotExcluded(rest)
            /\ rest[9] = PathString(project_dir) \o <<"/">>
            /\ rest[10] = build_server \o <<":">> \o build_path

\* A push made with hidden files left out.
C16_Witness ==
    /\ Invoked("SyncOut")
    /\ ~hidden
    /\ DotExcluded(PushCallArgs)
    /\ Len(PushCallArgs) = 12

\* Two spellings of one root: equal, or equal up to one trailing slash.
SameRoot(a, b) == a = b \/ a = b \o <<"/">> \/ b = a \o <<"/">>

\* C17: the workspace path is a function of the project root: deriving it
\* again for the same root gives the same path, and so does deriving it for
\* the same root written with a trailing slash.
C17_WorkspacePathOfRoot ==
    \A i, j \in 1..Len(derived) :
        SameRoot(derived[i].root, derived[j].root) => derived[i].path = derived[j].path

\* The same root derived with and without its trailing slash.
C17_Witness ==
    /\ Len(derived) = 2
    /\ derived[1].root = <<"/", "home", "/", "u", "/", "proj">>
    /\ derived[2].root = <<"/", "home", "/", "u", "/", "proj", "/">>
    /\ derived[1].path = derived[2].path

\* The host and the remote path of an rsync operand host:path.
RemoteHostOf(arg) == Head(SplitOn(arg, ":"))
RemotePathOf(arg) == SubSeq(arg, Len(RemoteHostOf(arg)) + 2, Len(arg))

\* The sub-path asked for with copy_back, empty for the whole target.
CopyBackSubPath ==
    IF IsSome(copy_back) /\ IsSome(Unwrap(copy_back)) THEN Unwrap(Unwrap(copy_back))
    ELSE << >>

\* The host and the directory one collaborator call works on are the
\* resolved host and the derived workspace path.
OnWorkspace(c) ==
    CASE c.stage = "SyncOut" ->
             /\ RemoteHostOf(c.args[Len(c.args)]) = build_server
             /\ RemotePathOf(c.args[Len(c.args)]) = build_path
      [] c.stage = "RemoteExecute" ->
             /\ c.args[2] = build_server
             /\ Len(Statements(c.args[3])) >= 3
             /\ Words(Statements(c.args[3])[3]) = << <<"cd">>, build_path >>
      [] c.stage = "CopyBackArtifacts" ->
             /\ RemoteHostOf(c.args[5]) = build_server
             /\ RemotePathOf(c.args[5]) = build_path \o <<"/target/">> \o CopyBackSubPath
      [] c.stage = "CopyBackLock" ->
             /\ RemoteHostOf(c.args[5]) = build_server
             /\ RemotePathOf(c.args[5]) = build_path \o <<"/Cargo.lock">>

\* C18: every collaborator call of a run works on the same host and the
\* same workspace path: the push destination, the host and directory of the
\* remote command, the artifact pull source <workspace>/target/<sub-path>
\* and the lock pull source <workspace>/Cargo.lock all carry the host
\* resolved and the path derived before the push, and both keep that value
\* through every later stage.  Each call is looked at from when it is made
\* until the next one.
C18_OneHostOneWorkspace ==
    /\ calls # << >> => OnWorkspace(calls[Len(calls)])
    /\ (pc \notin {"LoadConfigs", "ResolveHost", "DeriveWorkspace"}
            /\ outcome \notin {"Panic", "NoRemoteHost"}) =>
           /\ build_server = Unwrap(FirstSource)
           /\ build_path = WorkspacePath(PathString(project_dir))

\* A finished run that pushed, built and pulled a sub-path and the lock file.
C18_Witness ==
    /\ pc = "Done"
    /\ copy_back = Some(Some(<<"release/app">>))
    /\ StageOrder(calls) = <<"SyncOut", "RemoteExecute", "CopyBackArtifacts", "CopyBackLock">>
    /\ RemoteHostOf(calls[4].args[5]) = <<"proj.example">>

\* The ways a run can end.
TerminalKinds == FatalKinds \cup {"Success", "RemoteBuildFailed", "Panic"}

\* C19: given that every collaborator call returns, every run reaches a
\* terminal outcome; it has exactly one outcome and one exit code, set
\* together and never changed again, and no collaborator call is made after
\* it.
C19_OneTerminalOutcome ==
    /\ <>(pc = "Done")
    /\ [](pc = "Done" <=> IsSome(exit_code))
    /\ [](pc = "Done" <=> outcome \in TerminalKinds)
    /\ [](pc # "Done" => outcome = "Running")
    /\ [][pc = "Done" => (calls' = calls /\ exit_code' = exit_code /\ outcome' = outcome)]_vars
    /\ [][IsSome(exit_code) => exit_code' = exit_code]_vars

\* A run that ended after all four collaborator calls.
C19_Witness ==
    /\ pc = "Done"
    /\ Len(calls) = 4
    /\ outcome = "Success"
    /\ exit_code = Some(0)

====
